---- MODULE Spec2Model ----
(***************************************************************************)
(* Voice interaction orchestrator of SuWh1/voiceAi.                        *)
(*                                                                         *)
(* The repository holds two front-ends, and a run is a run of one of them:  *)
(*   "hook": the React hook useChatLogic (src/unnamed/part_001) bound to   *)
(*           ChatUI (src/frontend/audioChat/src/app/components/ChatUI.tsx) *)
(*   "app":  the single-component App (src/unnamed/part_000, lines 1-237)  *)
(*                                                                         *)
(* React state is a variable per useState cell, refs are a variable per    *)
(* useRef cell.  Browser objects (microphone request, MediaStream,         *)
(* AudioContext, MediaRecorder, poll timer, fetches, Audio elements) are   *)
(* indexed by the capture session or the turn that created them.  Every    *)
(* await is a point where the handler is suspended: the code before it is  *)
(* one action, the continuation after it another.                          *)
(***************************************************************************)
EXTENDS Integers, Sequences, FiniteSets, TLC

\* ------------------------------------------------------------- bounds
\* Capture sessions requested plus turns submitted, in one run.
MaxStarts == 3

Sessions == 1..MaxStarts
Turns == 1..MaxStarts

\* The clock of the timed specification: instants per poll interval, and
\* poll intervals per run.
StepsPerPoll == 4
MaxPolls == 12

\* ---------------------------------------------------------- constants
\* Loudness (RMS) is in thousandths: 0.01 is 10.
SILENCE_THRESHOLD == 10
\* Milliseconds.
SILENCE_DURATION == 1500
\* window.setTimeout(checkSilence, 200)
PollInterval == 200

Step == PollInterval \div StepsPerPoll
MaxTime == MaxPolls * PollInterval
\* A level at the threshold (silence) and one above it.
Levels == {SILENCE_THRESHOLD, SILENCE_THRESHOLD + 1}

\* ------------------------------------------------------------ strings
\* A string is a sequence of characters; " " is whitespace.
Strings == {<<>>, <<" ">>, <<"a">>, <<" ", "a">>}
\* The value JavaScript renders for a missing JSON field.
Undefined == <<"undefined">>

RECURSIVE TrimStart(_)
TrimStart(s) == IF s # <<>> /\ Head(s) = " " THEN TrimStart(Tail(s)) ELSE s

RECURSIVE TrimEnd(_)
TrimEnd(s) ==
  IF s # <<>> /\ s[Len(s)] = " " THEN TrimEnd(SubSeq(s, 1, Len(s) - 1)) ELSE s

\* String.prototype.trim
Trim(s) == TrimEnd(TrimStart(s))

\* JavaScript truthiness of a string or of a missing field.
Truthy(s) == s # Undefined /\ s # <<>>

RECURSIVE Sum(_)
Sum(q) == IF q = <<>> THEN 0 ELSE Head(q) + Sum(Tail(q))

IsPrefix(p, q) == Len(p) <= Len(q) /\ SubSeq(q, 1, Len(p)) = p

\* ------------------------------------------------------------- inputs
\* Sizes in bytes of the data a recorder hands over when it stops.
BlobSizes == {0, 500, 2000}
TypedTexts == {<<" ", "a">>}
MicOutcomes == {"granted", "denied", "recorderFails"}
\* "reject": the fetch rejects, or the body is not what res.json() parses.
\* "httpError": a non-2xx response whose JSON body carries no result field.
TranscribeOutcomes == {"reject", "httpError", "noField", "empty", "blank", "words"}
TextOutcomes == {"ok", "reject", "httpError"}
\* /chat of the App; "badAudio": reply_audio is not base64 text.
ChatOutcomes == {"ok", "reject", "httpError", "badAudio"}
VoiceOutcomes == {"ok", "reject", "httpError"}
\* "noEnd": play() fails to start, or the playback never reports an end.
PlayOutcomes == {"starts", "noEnd"}

\* The transcript field of a transcription response body.
TranscriptOf(o) ==
  CASE o = "empty" -> <<>>
    [] o = "blank" -> <<" ">>
    [] o = "words" -> <<"a">>
    [] OTHER -> Undefined

VARIABLES
  program, mounted,
  \* useState cells of the hook; history is also chatHistory of the App
  text, history, isThinkingText, isThinkingVoice, isRecording, error,
  \* useState cell of the App
  appState,
  \* useRef cells (0 is null; otherwise the session whose object is held)
  mediaRecorderRef, chunksRef, audioContextRef, analyserRef, sourceNodeRef,
  silenceTimerRef, lastSoundTimeRef,
  \* performance.now(), the loudness at this instant, and when each poll
  \* timer is due
  now, level, due,
  \* the instants at which a poll stopped the recording; the last instant
  \* the loudness was above the threshold (-1: never); whether the loudness
  \* ever rose above the threshold after having been at or below it
  fired, lastLoudAt, rose,
  \* the time of the last poll that sampled a loudness above the threshold
  \* (-1: none)
  lastLoudPoll,
  \* per capture session
  nSessions, mic, stream, ctx, rec, stopQueued, loop, tx, txCount,
  capHistory,
  \* per turn (one call of askWithMessage)
  nTurns, pc, textOutcome, audio,
  \* per turn: the local newHistory of askWithMessage (updatedHistory of the
  \* App), and the history carried by the body of the text-reply (or /chat)
  \* request and of the voice-reply request (<<>>: not issued)
  newHistory, textReq, voiceReq,
  \* a release of an already released resource was attempted; the stop
  \* requests made of each session's recorder (counted to 2)
  releaseError, stopReqs

uiVars == <<text, history, isThinkingText, isThinkingVoice>>
devVars == <<isRecording, error, appState, mediaRecorderRef, audioContextRef, analyserRef,
             sourceNodeRef, silenceTimerRef, ctx, rec, stopQueued, loop,
             releaseError, stopReqs>>
sessVars == <<nSessions, mic, stream, chunksRef, tx, txCount, capHistory>>
turnVars == <<nTurns, pc, textOutcome, audio, newHistory, textReq, voiceReq>>
pollVars == <<lastSoundTimeRef, due>>
clockVars == <<now, level, fired, lastLoudAt, rose, lastLoudPoll>>
vars == <<program, mounted, uiVars, devVars, sessVars, turnVars, pollVars,
          clockVars>>

\* ---------------------------------------------------------------- Init
InitWith(lv) ==
  /\ program \in {"hook", "app"}
  /\ now = 0
  /\ level = lv
  /\ lastSoundTimeRef = 0
  /\ due = [s \in Sessions |-> 0]
  /\ fired = <<>>
  /\ lastLoudAt = IF lv > SILENCE_THRESHOLD THEN 0 ELSE -1
  /\ rose = FALSE
  /\ lastLoudPoll = -1
  /\ mounted = TRUE
  /\ appState = "idle"
  /\ text = <<>>
  /\ history = <<>>
  /\ isThinkingText = FALSE
  /\ isThinkingVoice = FALSE
  /\ isRecording = FALSE
  /\ error = "null"
  /\ mediaRecorderRef = 0
  /\ chunksRef = <<>>
  /\ audioContextRef = 0
  /\ analyserRef = 0
  /\ sourceNodeRef = 0
  /\ silenceTimerRef = 0
  /\ nSessions = 0
  /\ mic = [s \in Sessions |-> "none"]
  /\ stream = [s \in Sessions |-> "none"]
  /\ ctx = [s \in Sessions |-> "none"]
  /\ rec = [s \in Sessions |-> "none"]
  /\ stopQueued = [s \in Sessions |-> FALSE]
  /\ loop = [s \in Sessions |-> "none"]
  /\ tx = [s \in Sessions |-> "none"]
  /\ txCount = [s \in Sessions |-> 0]
  /\ capHistory = [s \in Sessions |-> <<>>]
  /\ nTurns = 0
  /\ pc = [t \in Turns |-> "none"]
  /\ textOutcome = [t \in Turns |-> "none"]
  /\ audio = [t \in Turns |-> "none"]
  /\ newHistory = [t \in Turns |-> <<>>]
  /\ textReq = [t \in Turns |-> <<>>]
  /\ voiceReq = [t \in Turns |-> <<>>]
  /\ releaseError = FALSE
  /\ stopReqs = [s \in Sessions |-> 0]

\* The untimed specification leaves the clock at 0.
Init == InitWith(SILENCE_THRESHOLD)

\* ------------------------------------------------- the capture devices
\* The cells that stopRecording, cleanupAudioContext and the handlers that
\* call them read and write, as one record, so that the calls compose in the
\* order the code makes them.
Dev ==
  [isRecording |-> isRecording, error |-> error, appState |-> appState,
   mediaRecorderRef |-> mediaRecorderRef, audioContextRef |-> audioContextRef,
   analyserRef |-> analyserRef, sourceNodeRef |-> sourceNodeRef,
   silenceTimerRef |-> silenceTimerRef, ctx |-> ctx, rec |-> rec,
   stopQueued |-> stopQueued, loop |-> loop, releaseError |-> releaseError,
   stopReqs |-> stopReqs]

SetDev(D) ==
  /\ isRecording' = D.isRecording
  /\ error' = D.error
  /\ appState' = D.appState
  /\ mediaRecorderRef' = D.mediaRecorderRef
  /\ audioContextRef' = D.audioContextRef
  /\ analyserRef' = D.analyserRef
  /\ sourceNodeRef' = D.sourceNodeRef
  /\ silenceTimerRef' = D.silenceTimerRef
  /\ ctx' = D.ctx
  /\ rec' = D.rec
  /\ stopQueued' = D.stopQueued
  /\ loop' = D.loop
  /\ releaseError' = D.releaseError
  /\ stopReqs' = D.stopReqs

\* AudioContext.close(): closing a closed context rejects with an
\* InvalidStateError; releaseError records that a closed context was closed
\* again.
CloseContext(D, c) ==
  IF D.ctx[c] = "closed"
  THEN [D EXCEPT !.releaseError = TRUE]
  ELSE [D EXCEPT !.ctx[c] = "closed"]

\* clearTimeout: cancels the timer if it has not fired yet.
ClearTimer(D, l) ==
  IF D.loop[l] = "scheduled" THEN [D EXCEPT !.loop[l] = "ended"] ELSE D

\* cleanupAudioContext without audioContextRef.current = null.
cleanupAudioContextKeepsContext(D) ==
  LET D1 == IF D.audioContextRef # 0 THEN CloseContext(D, D.audioContextRef) ELSE D
      D2 == IF D1.silenceTimerRef # 0 THEN ClearTimer(D1, D1.silenceTimerRef) ELSE D1
  IN [D2 EXCEPT !.analyserRef = 0, !.sourceNodeRef = 0, !.silenceTimerRef = 0]

cleanupAudioContext(D) ==
  LET D1 == IF D.audioContextRef # 0 THEN CloseContext(D, D.audioContextRef) ELSE D
      D2 == IF D1.silenceTimerRef # 0 THEN ClearTimer(D1, D1.silenceTimerRef) ELSE D1
  IN [D2 EXCEPT !.analyserRef = 0, !.sourceNodeRef = 0,
                !.audioContextRef = 0, !.silenceTimerRef = 0]

\* MediaRecorder.stop(): the recorder is inactive at once, and one task is
\* queued that fires dataavailable and then stop.
RecorderStop(D, r) ==
  [D EXCEPT !.rec[r] = "inactive", !.stopQueued[r] = TRUE]

\* A stop request counted against the recorder it is made of.
Requested(D) ==
  IF D.mediaRecorderRef = 0 THEN D
  ELSE [D EXCEPT !.stopReqs[D.mediaRecorderRef] = IF @ < 2 THEN @ + 1 ELSE @]

stopRecording(D) ==
  LET r == D.mediaRecorderRef
      D1 == IF r # 0 /\ D.rec[r] # "inactive" THEN RecorderStop(D, r) ELSE D
  IN [cleanupAudioContext(Requested(D1)) EXCEPT !.isRecording = FALSE]

\* useEffect(() => () => { if (isRecording) stopRecording(); }, [isRecording]):
\* the cleanup of the render that saw isRecording = true runs when a later
\* render sees it false.
teardownEffect(D0, D1) ==
  IF D0.isRecording /\ ~D1.isRecording THEN stopRecording(D1) ELSE D1

\* ------------------------------------------------------------- actions
\* ChatUI textarea: disabled while thinking or recording.
setText(v) ==
  /\ program = "hook"
  /\ mounted
  /\ ~(isThinkingText \/ isThinkingVoice \/ isRecording)
  /\ v # text
  /\ text' = v
  /\ UNCHANGED <<clockVars, pollVars, program, mounted, history, isThinkingText, isThinkingVoice, devVars,
                 sessVars, turnVars>>

UserMessage(m, t) == [role |-> "user", content |-> m, turn |-> t]
AssistantMessage(m, t) == [role |-> "assistant", content |-> m, turn |-> t]

\* askWithMessage up to its first await; h is the history of the render whose
\* closure makes the call.
askWithMessage(t, m, h) ==
  /\ SetDev([Dev EXCEPT !.error = "null"])
  /\ nTurns' = t
  /\ newHistory' = [newHistory EXCEPT ![t] = Append(h, UserMessage(m, t))]
  /\ history' = newHistory'[t]
  /\ text' = <<>>
  /\ isThinkingText' = TRUE
  /\ textReq' = [textReq EXCEPT ![t] = newHistory'[t]]
  /\ pc' = [pc EXCEPT ![t] = "awaitText"]
  /\ UNCHANGED <<isThinkingVoice, textOutcome, audio, voiceReq>>

\* ChatUI "Ask & Speak" button and handleAsk.
handleAsk ==
  /\ program = "hook"
  /\ mounted
  /\ ~(isThinkingText \/ isThinkingVoice \/ Trim(text) = <<>> \/ isRecording)
  /\ Trim(text) # <<>>
  /\ nSessions + nTurns < MaxStarts
  /\ askWithMessage(nTurns + 1, Trim(text), history)
  /\ UNCHANGED <<clockVars, pollVars, program, mounted, sessVars>>

\* The reply field of a /chat-text/ response body.
ReplyOf(o) == IF o = "ok" THEN <<"r">> ELSE Undefined

\* A voice-reply request that carries the History state of the moment.
VoiceRequestHistoryCurrent(t) == history'

\* history: newHistory in the body of the voice-reply request.
VoiceRequestHistory(t) == newHistory[t]

\* The text leg settles (fetch and res.json()), then the voice fetch is issued.
TextReplySettles(t, o) ==
  /\ program = "hook"
  /\ pc[t] = "awaitText"
  /\ textOutcome' = [textOutcome EXCEPT ![t] = o]
  /\ IF o = "reject"
     THEN /\ SetDev([Dev EXCEPT !.error = "Error fetching text response"])
          /\ UNCHANGED history
     ELSE /\ history' = Append(history, AssistantMessage(ReplyOf(o), t))
          /\ UNCHANGED devVars
  /\ isThinkingText' = FALSE
  /\ isThinkingVoice' = TRUE
  /\ voiceReq' = [voiceReq EXCEPT ![t] = VoiceRequestHistory(t)]
  /\ pc' = [pc EXCEPT ![t] = "awaitVoice"]
  /\ UNCHANGED <<clockVars, pollVars, program, mounted, text, sessVars, nTurns, audio,
                 newHistory, textReq>>

\* new Audio(url).play() on the blob of the response: an error body is not
\* playable media ("unplayable"); playable audio plays to its end or not
\* ("failed").
PlayResult(o, p) ==
  IF o = "httpError" THEN "unplayable"
  ELSE IF p = "noEnd" THEN "failed" ELSE "playing"

\* The voice leg settles (fetch and res.blob()); on a response the audio is
\* handed to playback.
VoiceReplySettles(t, o, p) ==
  /\ program = "hook"
  /\ pc[t] = "awaitVoice"
  /\ IF o = "reject"
     THEN /\ SetDev([Dev EXCEPT !.error = "Error fetching voice response"])
          /\ isThinkingVoice' = FALSE
          /\ UNCHANGED audio
     ELSE /\ audio' = [audio EXCEPT ![t] = PlayResult(o, p)]
          /\ UNCHANGED <<devVars, isThinkingVoice>>
  /\ pc' = [pc EXCEPT ![t] = "done"]
  /\ UNCHANGED <<clockVars, pollVars, program, mounted, text, history, isThinkingText, sessVars,
                 nTurns, textOutcome, newHistory, textReq, voiceReq>>

\* audio.onended
AudioEnded(t) ==
  /\ program = "hook"
  /\ audio[t] = "playing"
  /\ audio' = [audio EXCEPT ![t] = "ended"]
  /\ isThinkingVoice' = FALSE
  /\ UNCHANGED <<clockVars, pollVars, program, mounted, text, history, isThinkingText, devVars, sessVars,
                 nTurns, pc, textOutcome, newHistory, textReq, voiceReq>>

\* handleRecordToggle up to its await: the stop branch, or the start branch
\* up to the microphone request.
handleRecordToggle ==
  /\ program = "hook"
  /\ mounted
  /\ IF isRecording
     THEN /\ SetDev(teardownEffect(Dev, stopRecording(Dev)))
          /\ UNCHANGED sessVars
     ELSE /\ nSessions + nTurns < MaxStarts
          /\ SetDev([Dev EXCEPT !.error = "null", !.isRecording = TRUE])
          /\ chunksRef' = <<>>
          /\ nSessions' = nSessions + 1
          /\ mic' = [mic EXCEPT ![nSessions + 1] = "pending"]
          /\ capHistory' = [capHistory EXCEPT ![nSessions + 1] = history]
          /\ UNCHANGED <<stream, tx, txCount>>
  /\ UNCHANGED <<clockVars, pollVars, program, mounted, uiVars, turnVars>>

\* startSilenceDetection(stream), on the cells of D: the first checkSilence()
\* runs at once, with lastSoundTimeRef = now, so it only schedules the next
\* poll.
startSilenceDetection(D, s) ==
  [D EXCEPT !.ctx[s] = "open", !.audioContextRef = s, !.sourceNodeRef = s,
            !.analyserRef = s, !.loop[s] = "scheduled", !.silenceTimerRef = s]

\* A catch block that leaves the recording flag set.
micCatchKeepsRecording(D) ==
  cleanupAudioContext([D EXCEPT !.error = "Cannot access microphone"])

\* The catch block of handleRecordToggle.
micCatch(D) ==
  cleanupAudioContext([D EXCEPT !.error = "Cannot access microphone",
                                !.isRecording = FALSE])

\* handleRecordToggle after getUserMedia settles.
getUserMediaSettles(s, o) ==
  /\ program = "hook"
  /\ mic[s] = "pending"
  /\ mic' = [mic EXCEPT ![s] = "settled"]
  /\ stream' = [stream EXCEPT ![s] = IF o = "denied" THEN "none" ELSE "live"]
  /\ SetDev(CASE o = "granted" ->
                   [startSilenceDetection(Dev, s)
                      EXCEPT !.mediaRecorderRef = s, !.rec[s] = "recording"]
              [] o = "recorderFails" ->
                   teardownEffect(Dev, micCatch(startSilenceDetection(Dev, s)))
              [] OTHER -> teardownEffect(Dev, micCatch(Dev)))
  /\ IF o = "denied"
     THEN UNCHANGED pollVars
     ELSE /\ lastSoundTimeRef' = now
          /\ due' = [due EXCEPT ![s] = now + PollInterval]
  /\ UNCHANGED <<clockVars, program, mounted, uiVars, turnVars, nSessions,
                 chunksRef, tx, txCount, capHistory>>

\* A poll that does not compare the sample with the threshold.
silenceVerdictIgnoresSound(rms, elapsedExceeds) ==
  IF elapsedExceeds THEN "stop" ELSE "wait"

\* A poll that never decides to stop.
silenceVerdictNeverStops(rms, elapsedExceeds) ==
  IF rms > SILENCE_THRESHOLD THEN "sound" ELSE "wait"

\* The decision of one poll: rms > SILENCE_THRESHOLD, else
\* now - lastSoundTimeRef.current > SILENCE_DURATION.
silenceVerdict(rms, elapsedExceeds) ==
  IF rms > SILENCE_THRESHOLD THEN "sound"
  ELSE IF elapsedExceeds THEN "stop" ELSE "wait"

\* A poll that never records the time of a sound.
soundTimeNeverSet(verdict, t, last) == last

\* lastSoundTimeRef.current after a poll at time t.
soundTime(verdict, t, last) == IF verdict = "sound" THEN t ELSE last

\* The poll reads now - lastSoundTimeRef.current > SILENCE_DURATION.
ElapsedExceeds == now - lastSoundTimeRef > SILENCE_DURATION

\* A poll of session s that stops the recording.
PollStops(s, rms, elapsedExceeds) ==
  analyserRef # 0 /\ silenceVerdict(rms, elapsedExceeds) = "stop"

\* The poll timer of session s fires: checkSilence, with the sample rms and
\* the outcome of the comparison of the clock.
checkSilence(s, rms, elapsedExceeds) ==
  /\ program = "hook"
  /\ loop[s] = "scheduled"
  /\ LET D0 == [Dev EXCEPT !.loop[s] = "ended"]
         v == silenceVerdict(rms, elapsedExceeds)
     IN IF D0.analyserRef = 0
        THEN SetDev(D0) /\ UNCHANGED pollVars
        ELSE IF v = "stop"
        THEN SetDev(teardownEffect(Dev, stopRecording(D0))) /\ UNCHANGED pollVars
        ELSE /\ SetDev([D0 EXCEPT !.loop[s] = "scheduled", !.silenceTimerRef = s])
             /\ lastSoundTimeRef' = soundTime(v, now, lastSoundTimeRef)
             /\ due' = [due EXCEPT ![s] = now + PollInterval]
  /\ UNCHANGED <<program, mounted, uiVars, turnVars, sessVars>>

\* Untimed: the sample and the comparison of the clock are free.
PollFires(s, rms, elapsedExceeds) ==
  /\ checkSilence(s, rms, elapsedExceeds)
  /\ UNCHANGED clockVars

\* mediaRecorder.ondataavailable
ondataavailable(chunks, size) == IF size > 0 THEN Append(chunks, size) ELSE chunks

\* The task a MediaRecorder.stop() queued: dataavailable, then onstop up to
\* its await (the transcription fetch is issued).
RecorderStopTask(s, size) ==
  /\ program = "hook"
  /\ stopQueued[s]
  /\ chunksRef' = ondataavailable(chunksRef, size)
  /\ LET D0 == [Dev EXCEPT !.stopQueued[s] = FALSE]
         D1 == [cleanupAudioContext(D0) EXCEPT !.isRecording = FALSE]
     IN SetDev(teardownEffect(Dev, D1))
  /\ tx' = [tx EXCEPT ![s] = "inflight"]
  /\ txCount' = [txCount EXCEPT ![s] = @ + 1]
  /\ UNCHANGED <<clockVars, pollVars, program, mounted, uiVars, turnVars, nSessions, mic, stream, capHistory>>

\* onstop after the transcription fetch and res.json() settle.
TranscribeSettles(s, o) ==
  /\ program = "hook"
  /\ tx[s] = "inflight"
  /\ tx' = [tx EXCEPT ![s] = "done"]
  /\ IF o # "reject" /\ Truthy(TranscriptOf(o))
     THEN /\ nSessions + nTurns < MaxStarts
          /\ askWithMessage(nTurns + 1, TranscriptOf(o), capHistory[s])
     ELSE /\ SetDev([Dev EXCEPT !.error = "Error transcribing audio"])
          /\ UNCHANGED <<uiVars, turnVars>>
  /\ UNCHANGED <<clockVars, pollVars, program, mounted, nSessions, mic, stream, chunksRef, txCount,
                 capHistory>>

\* The component unmounts while recording: the effect cleanup of the last
\* render runs.  (Unmounted while not recording, the cleanup does nothing and
\* the program goes on as it does when the user does nothing more.)
Unmount ==
  /\ program = "hook"
  /\ mounted
  /\ isRecording
  /\ mounted' = FALSE
  /\ SetDev(stopRecording(Dev))
  /\ UNCHANGED <<clockVars, pollVars, program, uiVars, sessVars, turnVars>>

\* ---------------------------------------------------- the App (part_000)
cleanupAudioProcessing(D) ==
  LET D1 == IF D.silenceTimerRef # 0 THEN ClearTimer(D, D.silenceTimerRef) ELSE D
      D2 == IF D1.audioContextRef # 0 THEN CloseContext(D1, D1.audioContextRef) ELSE D1
  IN [D2 EXCEPT !.analyserRef = 0, !.audioContextRef = 0]

stopRecordingApp(D) ==
  LET r == D.mediaRecorderRef
      D1 == IF r # 0 /\ D.rec[r] = "recording" THEN RecorderStop(D, r) ELSE D
  IN cleanupAudioProcessing(Requested(D1))

\* useEffect(() => () => { if (appState === 'recording') stopRecording(); },
\* [appState])
teardownEffectApp(D0, D1) ==
  IF D0.appState = "recording" /\ D1.appState # "recording"
  THEN stopRecordingApp(D1) ELSE D1

\* The record button (disabled while processing) and handleRecordClick up to
\* its await.
handleRecordClick ==
  /\ program = "app"
  /\ mounted
  /\ appState # "processing"
  /\ IF appState = "idle"
     THEN /\ nSessions < MaxStarts
          /\ SetDev([Dev EXCEPT !.appState = "recording"])
          /\ nSessions' = nSessions + 1
          /\ mic' = [mic EXCEPT ![nSessions + 1] = "pending"]
          /\ capHistory' = [capHistory EXCEPT ![nSessions + 1] = history]
          /\ UNCHANGED <<stream, chunksRef, tx, txCount>>
     ELSE /\ SetDev(stopRecordingApp(Dev))
          /\ UNCHANGED sessVars
  /\ UNCHANGED <<clockVars, pollVars, program, mounted, uiVars, turnVars>>

\* startSilenceDetection of the App: the source node is a local.
startSilenceDetectionApp(D, s) ==
  [D EXCEPT !.ctx[s] = "open", !.audioContextRef = s, !.analyserRef = s,
            !.loop[s] = "scheduled", !.silenceTimerRef = s]

\* handleRecordClick after getUserMedia settles.
getUserMediaSettlesApp(s, o) ==
  /\ program = "app"
  /\ mic[s] = "pending"
  /\ mic' = [mic EXCEPT ![s] = "settled"]
  /\ stream' = [stream EXCEPT ![s] = IF o = "denied" THEN "none" ELSE "live"]
  /\ chunksRef' = IF o = "granted" THEN <<>> ELSE chunksRef
  /\ SetDev(CASE o = "granted" ->
                   [startSilenceDetectionApp(Dev, s)
                      EXCEPT !.mediaRecorderRef = s, !.rec[s] = "recording"]
              [] o = "recorderFails" ->
                   LET D1 == startSilenceDetectionApp(Dev, s)
                   IN teardownEffectApp(D1, [D1 EXCEPT !.appState = "idle"])
              [] OTHER -> teardownEffectApp(Dev, [Dev EXCEPT !.appState = "idle"]))
  /\ IF o = "denied"
     THEN UNCHANGED pollVars
     ELSE /\ lastSoundTimeRef' = now
          /\ due' = [due EXCEPT ![s] = now + PollInterval]
  /\ UNCHANGED <<clockVars, program, mounted, uiVars, turnVars, nSessions, tx,
                 txCount, capHistory>>

\* The decision of one poll of the App, and lastSoundTimeRef.current after it.
silenceVerdictApp(rms, elapsedExceeds) ==
  IF rms > SILENCE_THRESHOLD THEN "sound"
  ELSE IF elapsedExceeds THEN "stop" ELSE "wait"

soundTimeApp(verdict, t, last) == IF verdict = "sound" THEN t ELSE last

\* The poll timer of session s fires: checkForSilence.
checkForSilence(s, rms, elapsedExceeds) ==
  /\ program = "app"
  /\ loop[s] = "scheduled"
  /\ LET D0 == [Dev EXCEPT !.loop[s] = "ended"]
         v == silenceVerdictApp(rms, elapsedExceeds)
     IN IF D0.analyserRef = 0
        THEN SetDev(D0) /\ UNCHANGED pollVars
        ELSE IF v = "stop"
        THEN SetDev(stopRecordingApp(D0)) /\ UNCHANGED pollVars
        ELSE /\ SetDev([D0 EXCEPT !.loop[s] = "scheduled", !.silenceTimerRef = s])
             /\ lastSoundTimeRef' = soundTimeApp(v, now, lastSoundTimeRef)
             /\ due' = [due EXCEPT ![s] = now + PollInterval]
  /\ UNCHANGED <<program, mounted, uiVars, turnVars, sessVars>>

PollFiresApp(s, rms, elapsedExceeds) ==
  /\ checkForSilence(s, rms, elapsedExceeds)
  /\ UNCHANGED clockVars

\* if (audioBlob.size < 2000)
MinPayloadSize == 2000

\* The task a MediaRecorder.stop() queued: the dataavailable listener, then
\* handleStopRecording up to its first await.
handleStopRecording(s, size) ==
  /\ program = "app"
  /\ stopQueued[s]
  /\ chunksRef' = Append(chunksRef, size)
  /\ LET D0 == [Dev EXCEPT !.stopQueued[s] = FALSE]
         small == Sum(chunksRef') < MinPayloadSize
         D1 == [D0 EXCEPT !.appState = IF small THEN "idle" ELSE "processing"]
     IN /\ SetDev(teardownEffectApp(Dev, D1))
        /\ tx' = [tx EXCEPT ![s] = IF small THEN @ ELSE "inflight"]
        /\ txCount' = [txCount EXCEPT ![s] = IF small THEN @ ELSE @ + 1]
  /\ UNCHANGED <<clockVars, pollVars, program, mounted, uiVars, turnVars, nSessions, mic, stream,
                 capHistory>>

\* handleStopRecording after the transcription fetch and its json() settle.
TranscribeSettlesApp(s, o) ==
  /\ program = "app"
  /\ tx[s] = "inflight"
  /\ tx' = [tx EXCEPT ![s] = "done"]
  /\ IF o \notin {"reject", "httpError"} /\ TranscriptOf(o) # Undefined
        /\ Trim(TranscriptOf(o)) # <<>>
     THEN /\ newHistory' = [newHistory EXCEPT ![nTurns + 1] =
                 Append(capHistory[s], UserMessage(TranscriptOf(o), nTurns + 1))]
          /\ history' = newHistory'[nTurns + 1]
          /\ textReq' = [textReq EXCEPT ![nTurns + 1] = newHistory'[nTurns + 1]]
          /\ nTurns' = nTurns + 1
          /\ pc' = [pc EXCEPT ![nTurns + 1] = "awaitChat"]
          /\ UNCHANGED <<devVars, text, isThinkingText, isThinkingVoice,
                         textOutcome, audio, voiceReq>>
     ELSE /\ SetDev(teardownEffectApp(Dev, [Dev EXCEPT !.appState = "idle"]))
          /\ UNCHANGED <<uiVars, turnVars>>
  /\ UNCHANGED <<clockVars, pollVars, program, mounted, nSessions, mic, stream, chunksRef, txCount,
                 capHistory>>

\* handleStopRecording after the /chat fetch and its json() settle.
ChatSettles(t, o, p) ==
  /\ program = "app"
  /\ pc[t] = "awaitChat"
  /\ pc' = [pc EXCEPT ![t] = "done"]
  /\ textOutcome' = [textOutcome EXCEPT ![t] = o]
  /\ history' = IF o \in {"ok", "badAudio"}
                THEN Append(history, AssistantMessage(<<"r">>, t)) ELSE history
  /\ audio' = [audio EXCEPT ![t] = IF o = "ok" THEN PlayResult(o, p) ELSE @]
  /\ SetDev(teardownEffectApp(Dev, [Dev EXCEPT !.appState = "idle"]))
  /\ UNCHANGED <<clockVars, pollVars, program, mounted, text, isThinkingText, isThinkingVoice,
                 sessVars, nTurns, newHistory, textReq, voiceReq>>

\* The reply audio of the App plays to its end; no handler is attached.
AudioEndedApp(t) ==
  /\ program = "app"
  /\ audio[t] = "playing"
  /\ audio' = [audio EXCEPT ![t] = "ended"]
  /\ UNCHANGED <<clockVars, pollVars, program, mounted, uiVars, devVars, sessVars, nTurns, pc,
                 textOutcome, newHistory, textReq, voiceReq>>

\* The App unmounts while recording.
UnmountApp ==
  /\ program = "app"
  /\ mounted
  /\ appState = "recording"
  /\ mounted' = FALSE
  /\ SetDev(stopRecordingApp(Dev))
  /\ UNCHANGED <<clockVars, pollVars, program, uiVars, sessVars, turnVars>>

Next ==
  \/ \E v \in TypedTexts : setText(v)
  \/ handleAsk
  \/ \E t \in Turns, o \in TextOutcomes : TextReplySettles(t, o)
  \/ \E t \in Turns, o \in VoiceOutcomes, p \in PlayOutcomes :
       VoiceReplySettles(t, o, p)
  \/ \E t \in Turns : AudioEnded(t)
  \/ handleRecordToggle
  \/ \E s \in Sessions, o \in MicOutcomes : getUserMediaSettles(s, o)
  \/ \E s \in Sessions, rms \in Levels, e \in BOOLEAN : PollFires(s, rms, e)
  \/ \E s \in Sessions, size \in BlobSizes : RecorderStopTask(s, size)
  \/ \E s \in Sessions, o \in TranscribeOutcomes : TranscribeSettles(s, o)
  \/ Unmount
  \/ handleRecordClick
  \/ \E s \in Sessions, o \in MicOutcomes : getUserMediaSettlesApp(s, o)
  \/ \E s \in Sessions, rms \in Levels, e \in BOOLEAN : PollFiresApp(s, rms, e)
  \/ \E s \in Sessions, size \in BlobSizes : handleStopRecording(s, size)
  \/ \E s \in Sessions, o \in TranscribeOutcomes : TranscribeSettlesApp(s, o)
  \/ \E t \in Turns, o \in ChatOutcomes, p \in PlayOutcomes : ChatSettles(t, o, p)
  \/ \E t \in Turns : AudioEndedApp(t)
  \/ UnmountApp

Spec == Init /\ [][Next]_vars

\* ------------------------------------------------ the timed specification
\* One capture session under a clock: the polls fire when they are due
\* (window.setTimeout(..., 200) taken as exact), the loudness is free at
\* every instant, and nobody presses the button again.
InitTimed == \E lv \in Levels : InitWith(lv)

BeginTimed ==
  /\ nSessions = 0
  /\ handleRecordToggle

BeginTimedApp ==
  /\ nSessions = 0
  /\ handleRecordClick

GrantedTimed == getUserMediaSettles(1, "granted")

GrantedTimedApp == getUserMediaSettlesApp(1, "granted")

\* The clock advances by one instant, to the loudness lv; no poll is overdue.
Tick(lv) ==
  /\ mic[1] = "settled"
  /\ now + Step <= MaxTime
  /\ \A s \in Sessions : loop[s] = "scheduled" => due[s] > now
  /\ now' = now + Step
  /\ level' = lv
  /\ lastLoudAt' = IF lv > SILENCE_THRESHOLD THEN now + Step ELSE lastLoudAt
  /\ rose' = (rose \/ (level <= SILENCE_THRESHOLD /\ lv > SILENCE_THRESHOLD))
  /\ UNCHANGED <<fired, lastLoudPoll, pollVars, program, mounted, uiVars, devVars,
                 sessVars, turnVars>>

\* This poll takes a sample, and the sample is above the threshold.
PollSamplesSound == analyserRef # 0 /\ level > SILENCE_THRESHOLD

PollOnTime(s) ==
  /\ now = due[s]
  /\ checkSilence(s, level, ElapsedExceeds)
  /\ fired' = IF PollStops(s, level, ElapsedExceeds) THEN Append(fired, now)
              ELSE fired
  /\ lastLoudPoll' = IF PollSamplesSound THEN now ELSE lastLoudPoll
  /\ UNCHANGED <<now, level, lastLoudAt, rose>>

PollOnTimeApp(s) ==
  /\ now = due[s]
  /\ checkForSilence(s, level, ElapsedExceeds)
  /\ fired' = IF PollStops(s, level, ElapsedExceeds) THEN Append(fired, now)
              ELSE fired
  /\ lastLoudPoll' = IF PollSamplesSound THEN now ELSE lastLoudPoll
  /\ UNCHANGED <<now, level, lastLoudAt, rose>>

NextTimed ==
  \/ BeginTimed
  \/ BeginTimedApp
  \/ GrantedTimed
  \/ GrantedTimedApp
  \/ \E lv \in Levels : Tick(lv)
  \/ \E s \in Sessions : PollOnTime(s)
  \/ \E s \in Sessions : PollOnTimeApp(s)

SpecTimed == InitTimed /\ [][NextTimed]_vars
\* The backend, the browser and the playback make progress; a user who is
\* recording falls silent in the end.
Fairness ==
  /\ WF_vars(\E t \in Turns, o \in TextOutcomes : TextReplySettles(t, o))
  /\ WF_vars(\E t \in Turns, o \in VoiceOutcomes, p \in PlayOutcomes :
               VoiceReplySettles(t, o, p))
  /\ WF_vars(\E t \in Turns : AudioEnded(t))
  /\ WF_vars(\E s \in Sessions, o \in MicOutcomes : getUserMediaSettles(s, o))
  /\ WF_vars(\E s \in Sessions : PollFires(s, SILENCE_THRESHOLD, TRUE))
  /\ WF_vars(\E s \in Sessions, size \in BlobSizes : RecorderStopTask(s, size))
  /\ WF_vars(\E s \in Sessions, o \in TranscribeOutcomes : TranscribeSettles(s, o))
  /\ WF_vars(\E s \in Sessions, o \in MicOutcomes : getUserMediaSettlesApp(s, o))
  /\ WF_vars(\E s \in Sessions : PollFiresApp(s, SILENCE_THRESHOLD, TRUE))
  /\ WF_vars(\E s \in Sessions, size \in BlobSizes : handleStopRecording(s, size))
  /\ WF_vars(\E s \in Sessions, o \in TranscribeOutcomes : TranscribeSettlesApp(s, o))
  /\ WF_vars(\E t \in Turns, o \in ChatOutcomes, p \in PlayOutcomes :
               ChatSettles(t, o, p))

FairSpec == Spec /\ Fairness

\* ------------------------------------------------------------ the claims
\* A reply is pending: textPending or voicePending; for the App, processing.
ReplyPending ==
  IF program = "hook" THEN isThinkingText \/ isThinkingVoice
  ELSE appState = "processing"

\* The recording flag shown to the user.
RecordingFlag == IF program = "hook" THEN isRecording ELSE appState = "recording"

\* C1: a begin-recording request made while a reply is pending is rejected:
\* no step taken while a reply is pending and the recording flag is false
\* requests a capture session or raises the recording flag.
C1_PendingRejectsRecording ==
  [][(mounted /\ ReplyPending /\ ~RecordingFlag)
       => (nSessions' = nSessions /\ ~RecordingFlag')]_vars

\* C2: History is append-only: the history before a step is a prefix of the
\* history after it.
C2_HistoryAppendOnly == [][IsPrefix(history, history')]_vars

\* The capture sessions that are open: a held stream with an active recorder.
OpenSessions == {s \in Sessions : stream[s] = "live" /\ rec[s] = "recording"}

\* C3: at most one capture session is open at any time.
C3_OneCaptureSession == Cardinality(OpenSessions) <= 1

TextLegFailed(t) == textOutcome[t] \in {"reject", "httpError"}
VoiceLegFailed(t) == pc[t] = "done" /\ audio[t] \in {"none", "unplayable"}
HasMessage(r, t) ==
  \E i \in 1..Len(history) : history[i].role = r /\ history[i].turn = t

\* C4: in a turn of which one reply leg failed and the other succeeded, the
\* user's message is in History, the leg that succeeded took effect, the
\* failed leg's pending flag is false and the error holds a detail.
\* (Stated of a single typed turn that has settled, with no recording.)
C4_PartialFailure ==
  (/\ program = "hook" /\ mounted /\ nSessions = 0 /\ nTurns = 1
   /\ pc[1] = "done"
   /\ TextLegFailed(1) # VoiceLegFailed(1))
  => /\ HasMessage("user", 1)
     /\ ~TextLegFailed(1) => HasMessage("assistant", 1)
     /\ ~VoiceLegFailed(1) => audio[1] \in {"playing", "failed", "ended"}
     /\ TextLegFailed(1) => ~isThinkingText
     /\ VoiceLegFailed(1) => ~isThinkingVoice
     /\ error # "null"

TurnInProgress ==
  \/ RecordingFlag
  \/ ReplyPending
  \/ \E s \in Sessions : tx[s] = "inflight"
  \/ \E t \in Turns : pc[t] \in {"awaitText", "awaitVoice", "awaitChat"}

SystemIdle ==
  /\ ~RecordingFlag
  /\ ~isThinkingText
  /\ ~isThinkingVoice
  /\ appState = "idle"

\* C5: from every state in which a turn is in progress the system reaches,
\* under fair progress, the idle state with both pending flags false.
C5_EventuallyIdle == TurnInProgress ~> SystemIdle

\* C6: whatever stop requests are made of a capture session, its recording
\* is submitted for transcription at most once and no resource is released
\* twice.
C6_IdempotentStop ==
  /\ \A s \in Sessions : txCount[s] <= 1
  /\ ~releaseError

\* A session whose recorder was asked to stop more than once and whose
\* recording was submitted.
C6_Witness == \E s \in Sessions : stopReqs[s] >= 2 /\ txCount[s] = 1

\* The recording of session s is finalized by this step.
Finalized(s) == stopQueued[s] /\ ~stopQueued'[s]

\* C7: a recording finalized with a payload below the minimum size issues no
\* transcription request, leaves History unchanged and returns to idle.
C7_MinimumSizeDiscard ==
  [][\A s \in Sessions :
       (Finalized(s) /\ Sum(chunksRef') < MinPayloadSize)
         => /\ tx'[s] = tx[s]
            /\ history' = history
            /\ ~RecordingFlag'
            /\ appState' = "idle"]_vars

\* A transcription that failed or whose transcript is empty or whitespace.
Unusable(o) ==
  o \in {"reject", "httpError", "noField"} \/ Trim(TranscriptOf(o)) = <<>>

\* C8: when the transcription fails or returns an empty or whitespace-only
\* transcript, History is unchanged, no reply fetch is issued and the system
\* is idle.
C8_UnusableTranscript ==
  [][\A s \in Sessions, o \in TranscribeOutcomes :
       (Unusable(o) /\ (TranscribeSettles(s, o) \/ TranscribeSettlesApp(s, o)))
         => /\ history' = history
            /\ nTurns' = nTurns
            /\ pc' = pc
            /\ appState' = "idle"]_vars

\* Turn t succeeded: its replies arrived and took effect.
TurnSucceeded(t) ==
  /\ pc[t] = "done"
  /\ textOutcome[t] = "ok"
  /\ audio[t] \in {"playing", "ended"}

\* C9: after N turns that all succeeded, History has length 2N and is the
\* turns' user and assistant messages, alternating, in submission order.
C9_TwoMessagesPerTurn ==
  (\A t \in 1..nTurns : TurnSucceeded(t))
  => /\ Len(history) = 2 * nTurns
     /\ \A t \in 1..nTurns :
          /\ history[2 * t - 1].role = "user" /\ history[2 * t - 1].turn = t
          /\ history[2 * t].role = "assistant" /\ history[2 * t].turn = t

\* The loudness was above the threshold until DropTime, and has been at or
\* below it since.
DropTime == IF lastLoudAt < 0 THEN 0 ELSE lastLoudAt + Step
SilentSinceDrop == mic[1] = "settled" /\ ~rose /\ level <= SILENCE_THRESHOLD

FiredNow == Len(fired) > 0 /\ fired[Len(fired)] = now

\* C11, as claimed: the silence stop never fires at a time t if the loudness
\* exceeded the threshold at any instant of (t - silenceDuration, t], the
\* instants between two polls included.
C11_NoSoundInWindow ==
  FiredNow => (lastLoudAt < 0 \/ lastLoudAt <= now - SILENCE_DURATION)

\* C11, amended: the silence stop never fires at a time t if a poll sampled
\* a loudness above the threshold at a time in [t - silenceDuration, t].
C11_NoLoudPollInWindow ==
  FiredNow => (lastLoudPoll < 0 \/ lastLoudPoll < now - SILENCE_DURATION)

\* The stop has fired after a poll had sampled sound.
C11_Witness == FiredNow /\ lastLoudPoll >= 0

\* The capture session s has been closed: its microphone request settled and
\* its recorder is not recording (it was stopped, or it never started).
SessionClosed(s) == mic[s] = "settled" /\ rec[s] # "recording"

\* C12: whatever path closes a capture session, each resource acquired when
\* it opened (microphone stream, audio context, poll timer) is released
\* exactly once: none is held after the session is closed, none is released
\* twice.
C12_ReleasedExactlyOnce ==
  /\ \A s \in Sessions :
       SessionClosed(s)
         => /\ stream[s] # "live"
            /\ ctx[s] # "open"
            /\ loop[s] # "scheduled"
  /\ ~releaseError

\* The voice-reply fetch of turn t has been issued (line 119 was reached);
\* the App issues none.
VoiceFetchIssued(t) == program = "hook" /\ pc[t] \in {"awaitVoice", "done"}

\* The text leg of turn t settles in this step.
TextLegSettles(t) == pc[t] = "awaitText" /\ pc'[t] # "awaitText"

\* C13: the text-reply fetch and the voice-reply fetch of a turn are both
\* issued before either resolves: when the text leg settles, the voice fetch
\* is already in flight and both pending flags are true.
C13_FetchesConcurrent ==
  [][\A t \in Turns :
       (program = "hook" /\ TextLegSettles(t))
         => (VoiceFetchIssued(t) /\ isThinkingText /\ isThinkingVoice)]_vars

\* The reply audios that are playing.
Playing == {t \in Turns : audio[t] = "playing"}

\* C14: at most one reply audio is playing at any time.
C14_OnePlayback == Cardinality(Playing) <= 1

\* The microphone request of session s was refused: it settled without a
\* stream.
Denied(s) == mic[s] = "settled" /\ stream[s] = "none"

\* The microphone request of session s is refused in this step.
DeniedNow(s) ==
  getUserMediaSettles(s, "denied") \/ getUserMediaSettlesApp(s, "denied")

\* A click on the record button would begin a recording.
BeginAccepted ==
  IF program = "hook" THEN ~isRecording ELSE appState = "idle"

\* C15: when microphone access is refused, no recorder, audio context or
\* poll loop is ever started for that request; the refusal leaves the
\* recording flag false and History unchanged, and a begin-recording request
\* made after it is accepted.
C15_PermissionDenied ==
  /\ [](\A s \in Sessions :
          Denied(s) => (rec[s] = "none" /\ loop[s] = "none" /\ ctx[s] = "none"))
  /\ [][\A s \in Sessions :
          DeniedNow(s) => /\ ~RecordingFlag'
                          /\ history' = history
                          /\ BeginAccepted']_vars

\* A request was refused and a later request was accepted and is recording.
C15_Witness ==
  \E s, s2 \in Sessions : s < s2 /\ Denied(s) /\ rec[s2] = "recording"

\* q ends with the user message of turn t.
EndsWithUserMessage(q, t) ==
  Len(q) > 0 /\ q[Len(q)].role = "user" /\ q[Len(q)].turn = t

\* C16: the text-reply request and the voice-reply request of a turn carry
\* the identical history snapshot, whose last element is the user message of
\* the turn, however History changes between the two requests.
C16_SameSnapshot ==
  \A t \in Turns :
    /\ pc[t] # "none" => EndsWithUserMessage(textReq[t], t)
    /\ VoiceFetchIssued(t)
         => (voiceReq[t] = textReq[t] /\ EndsWithUserMessage(voiceReq[t], t))

\* Both requests of a turn were issued, and History was changed in between.
C16_Witness ==
  \E t \in Turns : VoiceFetchIssued(t) /\ history # voiceReq[t]

\* The clock runs and the poll timer fires when it is due; the user does
\* nothing after the recording began.
SpecTimedFair ==
  /\ SpecTimed
  /\ WF_vars(\E lv \in Levels : Tick(lv))
  /\ WF_vars(\E s \in Sessions : PollOnTime(s))
  /\ WF_vars(\E s \in Sessions : PollOnTimeApp(s))

\* The first poll later than session start + silenceDuration; the session of
\* the timed specification starts at 0.
AutoStopTime == PollInterval * ((SILENCE_DURATION \div PollInterval) + 1)

\* No poll has sampled a loudness above the threshold.
NoLoudPoll == lastLoudPoll < 0

\* C17: if a capture session is open and no poll ever observes loudness
\* above the threshold, the watchdog stops the recording, at the first poll
\* later than session start + silenceDuration and at no other time.
C17_SilentRoomAutoStop ==
  /\ []((mic[1] = "settled" /\ NoLoudPoll)
          => \/ (fired = <<>> /\ now <= AutoStopTime /\ rec[1] = "recording")
             \/ (fired = <<AutoStopTime>> /\ rec[1] = "inactive"))
  /\ ((<>(mic[1] = "settled") /\ []NoLoudPoll)
        => <>(fired = <<AutoStopTime>> /\ rec[1] = "inactive"))

\* The watchdog stopped a recording during which no poll sampled sound.
C17_Witness ==
  NoLoudPoll /\ fired = <<AutoStopTime>> /\ rec[1] = "inactive"

\* The voice-reply fetch of turn t succeeded and its audio has not reported
\* its end.
AwaitingPlaybackEnd(t) == program = "hook" /\ audio[t] = "playing"

\* C18: after a successful voice-reply fetch, voicePending stays true until
\* the playback-ended event of that reply's audio.
C18_VoicePendingUntilEnded ==
  \A t \in Turns : AwaitingPlaybackEnd(t) => isThinkingVoice

\* What the error state tells the user.
ReportsTextFailure(e) == e = "Error fetching text response"
ReportsVoiceFailure(e) == e = "Error fetching voice response"

\* Both fetches of turn t were rejected, and the turn has settled.
BothLegsRejected(t) ==
  program = "hook" /\ pc[t] = "done" /\ textOutcome[t] = "reject"
  /\ audio[t] = "none"

\* C19: when both reply legs of a turn fail, the error state after the turn
\* has settled reflects the text-reply failure as well as the voice-reply
\* failure.  (Stated of a single typed turn, with no recording.)
C19_BothFailuresReported ==
  (mounted /\ nSessions = 0 /\ nTurns = 1 /\ BothLegsRejected(1))
  => (ReportsTextFailure(error) /\ ReportsVoiceFailure(error))

\* The text reply of turn t arrives with a non-2xx status in this step
\* (/chat-text/ of the hook, /chat of the App).
TextReplyNon2xx(t) ==
  \/ TextReplySettles(t, "httpError")
  \/ \E p \in PlayOutcomes : ChatSettles(t, "httpError", p)

\* C20: a text-reply response with a non-2xx status is a failed text leg: no
\* assistant message of the turn is appended to History, textPending is
\* cleared and a text-reply error is surfaced.  (The App has no error state;
\* of the App the first two are stated.)
C20_Non2xxTextFails ==
  [][\A t \in Turns :
       TextReplyNon2xx(t)
         => /\ \A i \in 1..Len(history') :
                 ~(history'[i].role = "assistant" /\ history'[i].turn = t)
            /\ ~isThinkingText'
            /\ appState' = "idle"
            /\ program = "hook" => ReportsTextFailure(error')]_vars

\* A recorder is capturing or a silence poll loop is running.
CaptureActive ==
  \E s \in Sessions : rec[s] = "recording" \/ loop[s] = "scheduled"

\* C21: whenever a recorder is capturing or a silence poll loop is running,
\* the recording flag shown to the user is true.
C21_FlagTracksRecorder == (mounted /\ CaptureActive) => RecordingFlag
====
